---- MODULE Spec2Model ----
(***************************************************************************)
(* Model of the hybrid PHI de-identification pipeline of synthea-deid:     *)
(* walk_json (the keypath flattener), deidentify_line (model -> keypath    *)
(* hint -> regex safeguard -> contextual fixes), set_value_at_path (the    *)
(* path rewriter) and deidentify_json (the orchestrator).                  *)
(*                                                                         *)
(* Python strings are TLA+ strings; a character is a string of length 1.   *)
(* A JSON document is a record [k |-> kind, v |-> payload]:                *)
(*   "obj"  v = sequence of [key, val] in dict insertion order             *)
(*   "arr"  v = sequence of documents                                      *)
(*   "str"  v = string     "num" v = integer     "bool" v = BOOLEAN        *)
(*   "null" v = 0                                                          *)
(***************************************************************************)
EXTENDS Integers, Sequences, FiniteSets, TLC

(***************************************************************************)
(* Strings                                                                 *)
(***************************************************************************)
Ch(s, i) == SubSeq(s, i, i)

UpperSet ==
    {"A", "B", "C", "D", "E", "F", "G", "H", "I", "J", "K", "L", "M",
     "N", "O", "P", "Q", "R", "S", "T", "U", "V", "W", "X", "Y", "Z"}
LowerSet ==
    {"a", "b", "c", "d", "e", "f", "g", "h", "i", "j", "k", "l", "m",
     "n", "o", "p", "q", "r", "s", "t", "u", "v", "w", "x", "y", "z"}
DigitSet == {"0", "1", "2", "3", "4", "5", "6", "7", "8", "9"}
HexSet == DigitSet \cup {"a", "b", "c", "d", "e", "f", "A", "B", "C", "D", "E", "F"}
WordSet == UpperSet \cup LowerSet \cup DigitSet \cup {"_"}
SpaceSet == {" ", "\t", "\n", "\r"}

LowerOf ==
    ("A" :> "a") @@ ("B" :> "b") @@ ("C" :> "c") @@ ("D" :> "d") @@ ("E" :> "e") @@ ("F" :> "f")
    @@ ("G" :> "g") @@ ("H" :> "h") @@ ("I" :> "i") @@ ("J" :> "j") @@ ("K" :> "k") @@ ("L" :> "l")
    @@ ("M" :> "m") @@ ("N" :> "n") @@ ("O" :> "o") @@ ("P" :> "p") @@ ("Q" :> "q") @@ ("R" :> "r")
    @@ ("S" :> "s") @@ ("T" :> "t") @@ ("U" :> "u") @@ ("V" :> "v") @@ ("W" :> "w") @@ ("X" :> "x")
    @@ ("Y" :> "y") @@ ("Z" :> "z")
UpperOf ==
    ("a" :> "A") @@ ("b" :> "B") @@ ("c" :> "C") @@ ("d" :> "D") @@ ("e" :> "E") @@ ("f" :> "F")
    @@ ("g" :> "G") @@ ("h" :> "H") @@ ("i" :> "I") @@ ("j" :> "J") @@ ("k" :> "K") @@ ("l" :> "L")
    @@ ("m" :> "M") @@ ("n" :> "N") @@ ("o" :> "O") @@ ("p" :> "P") @@ ("q" :> "Q") @@ ("r" :> "R")
    @@ ("s" :> "S") @@ ("t" :> "T") @@ ("u" :> "U") @@ ("v" :> "V") @@ ("w" :> "W") @@ ("x" :> "X")
    @@ ("y" :> "Y") @@ ("z" :> "Z")
DigitOf ==
    ("0" :> 0) @@ ("1" :> 1) @@ ("2" :> 2) @@ ("3" :> 3) @@ ("4" :> 4) @@ ("5" :> 5)
    @@ ("6" :> 6) @@ ("7" :> 7) @@ ("8" :> 8) @@ ("9" :> 9)

LowerCh(c) == IF c \in UpperSet THEN LowerOf[c] ELSE c
UpperCh(c) == IF c \in LowerSet THEN UpperOf[c] ELSE c

RECURSIVE MapStr(_, _, _)
MapStr(s, i, up) ==
    IF i > Len(s) THEN ""
    ELSE (IF up THEN UpperCh(Ch(s, i)) ELSE LowerCh(Ch(s, i))) \o MapStr(s, i + 1, up)

\* str.lower(), str.upper()
Lower(s) == MapStr(s, 1, FALSE)
Upper(s) == MapStr(s, 1, TRUE)

\* s[p:] starts with w (p is a 0-based offset)
StartsAt(s, w, p) == p + Len(w) <= Len(s) /\ SubSeq(s, p + 1, p + Len(w)) = w
StartsWith(s, w) == StartsAt(s, w, 0)

\* w in s
Contains(s, w) == \E p \in 0..Len(s) : StartsAt(s, w, p)

RECURSIVE LStrip(_)
LStrip(s) == IF Len(s) > 0 /\ Ch(s, 1) \in SpaceSet THEN LStrip(SubSeq(s, 2, Len(s))) ELSE s
RECURSIVE RStrip(_)
RStrip(s) == IF Len(s) > 0 /\ Ch(s, Len(s)) \in SpaceSet THEN RStrip(SubSeq(s, 1, Len(s) - 1)) ELSE s

\* str.strip()
Strip(s) == RStrip(LStrip(s))

\* str.replace(w, r) / re.sub(re.escape(w), r, s): every non-overlapping
\* occurrence of the text w, left to right
\* (cs and cw are s and w as they are compared: themselves, or lower-cased;
\* the empty text occurs before every character and at the end)
RECURSIVE ReplaceFrom(_, _, _, _, _)
ReplaceFrom(s, cs, cw, r, p) ==
    IF p >= Len(s) THEN (IF Len(cw) = 0 THEN r ELSE "")
    ELSE IF Len(cw) = 0 THEN r \o Ch(s, p + 1) \o ReplaceFrom(s, cs, cw, r, p + 1)
    ELSE IF StartsAt(cs, cw, p) THEN r \o ReplaceFrom(s, cs, cw, r, p + Len(cw))
    ELSE Ch(s, p + 1) \o ReplaceFrom(s, cs, cw, r, p + 1)

ReplaceAll(s, w, r) == ReplaceFrom(s, s, w, r, 0)
ReplaceAllIgnoreCase(s, w, r) == ReplaceFrom(s, Lower(s), Lower(w), r, 0)

\* str.split(sep) for a one-character separator
RECURSIVE SplitFrom(_, _, _, _)
SplitFrom(s, sep, p, cur) ==
    IF p > Len(s) THEN <<cur>>
    ELSE IF Ch(s, p) = sep THEN <<cur>> \o SplitFrom(s, sep, p + 1, "")
         ELSE SplitFrom(s, sep, p + 1, cur \o Ch(s, p))

Split(s, sep) == SplitFrom(s, sep, 1, "")

\* sep.join(parts)
RECURSIVE Join(_, _)
Join(parts, sep) ==
    IF Len(parts) = 0 THEN ""
    ELSE IF Len(parts) = 1 THEN parts[1]
         ELSE parts[1] \o sep \o Join(Tail(parts), sep)

\* str(n) for an int
RECURSIVE NatToStr(_)
NatToStr(n) == IF n < 10 THEN Ch("0123456789", n + 1) ELSE NatToStr(n \div 10) \o Ch("0123456789", (n % 10) + 1)
IntToStr(n) == IF n < 0 THEN "-" \o NatToStr(0 - n) ELSE NatToStr(n)

\* int(digits) for a string of decimal digits
RECURSIVE StrToNat(_, _)
StrToNat(s, acc) ==
    IF Len(s) = 0 THEN acc
    ELSE StrToNat(SubSeq(s, 2, Len(s)), acc * 10 + DigitOf[Ch(s, 1)])

\* str.isdigit()
IsDigitStr(s) == Len(s) > 0 /\ \A i \in 1..Len(s) : Ch(s, i) \in DigitSet

(***************************************************************************)
(* Regular expressions, matched the way Python's backtracking matcher      *)
(* does.  A pattern is a tree of records:                                  *)
(*   [t |-> "set", cs |-> S]      one character of S                      *)
(*   [t |-> "wb"]                 \b                                       *)
(*   [t |-> "cat", rs |-> <<..>>] concatenation                            *)
(*   [t |-> "alt", rs |-> <<..>>] alternation, left alternative first      *)
(*   [t |-> "rep", r |-> p, lo |-> m, hi |-> n]  greedy p{m,n}; n = -1 is  *)
(*                                no upper limit                           *)
(* Ends(re, s, p) is the sequence of offsets at which a match of re that   *)
(* starts at offset p can end, in the order the matcher tries them.        *)
(***************************************************************************)
OneOf(S) == [t |-> "set", cs |-> S]
Lit(c) == OneOf({c})
WB == [t |-> "wb"]
Cat(rs) == [t |-> "cat", rs |-> rs]
Alt(rs) == [t |-> "alt", rs |-> rs]
Rep(r, lo, hi) == [t |-> "rep", r |-> r, lo |-> lo, hi |-> hi]
Opt(r) == Rep(r, 0, 1)
Plus(r) == Rep(r, 1, -1)
AtLeast(r, lo) == Rep(r, lo, -1)
Times(r, n) == Rep(r, n, n)

IsWordAt(s, i) == i >= 1 /\ i <= Len(s) /\ Ch(s, i) \in WordSet

RECURSIVE Ends(_, _, _)
RECURSIVE EndsCat(_, _, _, _)
RECURSIVE EndsCatEach(_, _, _, _, _)
RECURSIVE EndsAlt(_, _, _, _)
RECURSIVE EndsRep(_, _, _, _)
RECURSIVE EndsRepEach(_, _, _, _, _, _)

Ends(re, s, p) ==
    CASE re.t = "set" -> IF p < Len(s) /\ Ch(s, p + 1) \in re.cs THEN <<p + 1>> ELSE <<>>
      [] re.t = "wb"  -> IF IsWordAt(s, p) # IsWordAt(s, p + 1) THEN <<p>> ELSE <<>>
      [] re.t = "cat" -> EndsCat(re.rs, 1, s, p)
      [] re.t = "alt" -> EndsAlt(re.rs, 1, s, p)
      [] re.t = "rep" -> EndsRep(re, s, p, 0)

EndsCat(rs, i, s, p) ==
    IF i > Len(rs) THEN <<p>>
    ELSE EndsCatEach(rs, i, s, Ends(rs[i], s, p), 1)

EndsCatEach(rs, i, s, es, j) ==
    IF j > Len(es) THEN <<>>
    ELSE EndsCat(rs, i + 1, s, es[j]) \o EndsCatEach(rs, i, s, es, j + 1)

EndsAlt(rs, i, s, p) ==
    IF i > Len(rs) THEN <<>>
    ELSE Ends(rs[i], s, p) \o EndsAlt(rs, i + 1, s, p)

EndsRep(re, s, p, n) ==
    (IF re.hi < 0 \/ n < re.hi THEN EndsRepEach(re, s, Ends(re.r, s, p), 1, n, p) ELSE <<>>)
    \o (IF n >= re.lo THEN <<p>> ELSE <<>>)

\* an iteration that consumed nothing is not repeated
EndsRepEach(re, s, es, j, n, p) ==
    IF j > Len(es) THEN <<>>
    ELSE (IF es[j] > p THEN EndsRep(re, s, es[j], n + 1) ELSE <<>>)
         \o EndsRepEach(re, s, es, j + 1, n, p)

\* pattern.search(s): the leftmost match, [found, start, end, text]
NoMatch == [found |-> FALSE, start |-> 0, end |-> 0, text |-> ""]

RECURSIVE SearchFrom(_, _, _)
SearchFrom(re, s, p) ==
    IF p > Len(s) THEN NoMatch
    ELSE LET es == Ends(re, s, p)
         IN IF Len(es) > 0
            THEN [found |-> TRUE, start |-> p, end |-> es[1], text |-> SubSeq(s, p + 1, es[1])]
            ELSE SearchFrom(re, s, p + 1)

Search(re, s) == SearchFrom(re, s, 0)

\* re.fullmatch(re, s)
FullMatch(re, s) == LET es == Ends(re, s, 0) IN \E j \in 1..Len(es) : es[j] = Len(s)

(***************************************************************************)
(* Bounds of the model                                                     *)
(***************************************************************************)
\* entries of an input bundle
MaxEntries == 2
\* calls of deidentify_json, each on the document the call before returned
MaxRuns == 2
\* model calls, over all runs, that return spans (the others return none)
MaxModelHits == 1

(***************************************************************************)
(* Constants of deid_pipeline.py.  Scores are in thousandths.              *)
(***************************************************************************)
CONF_THRESHOLD == 800

Upper1 == OneOf(UpperSet)
Lower1 == OneOf(LowerSet)
Digit1 == OneOf(DigitSet)
Space1 == OneOf(SpaceSet)
Hex1 == OneOf(HexSet)

\* [A-Z][a-z]+[0-9]{2,}
NameToken == Cat(<<Upper1, Plus(Lower1), AtLeast(Digit1, 2)>>)

PatName == Cat(<<WB, NameToken, Opt(Cat(<<Space1, NameToken>>)), WB>>)
PatCityState == Cat(<<WB, Upper1, Plus(Lower1), Lit(","), Space1, Times(Upper1, 2), WB>>)
PatPhone ==
    Cat(<<Alt(<<Cat(<<Lit("("), Times(Digit1, 3), Lit(")"), Space1, Times(Digit1, 3), Lit("-"), Times(Digit1, 4)>>),
                Cat(<<WB, Rep(Digit1, 1, 3), Lit("-"), Times(Digit1, 3), Lit("-"), Times(Digit1, 3), Lit("-"), Times(Digit1, 4)>>),
                Cat(<<WB, Times(Digit1, 3), Lit("."), Times(Digit1, 3), Lit("."), Times(Digit1, 4)>>),
                Cat(<<WB, Times(Digit1, 3), Lit("-"), Times(Digit1, 3), Lit("-"), Times(Digit1, 4)>>)>>),
          Opt(Cat(<<Opt(Space1), Lit("x"), Rep(Digit1, 3, 5)>>))>>)
PatSSN == Cat(<<WB, Times(Digit1, 3), Opt(Lit("-")), Times(Digit1, 2), Opt(Lit("-")), Times(Digit1, 4), WB>>)
PatMRN == Cat(<<WB, Upper1, Times(Digit1, 8), WB>>)
PatPassport == Cat(<<WB, Lit("X"), Times(Digit1, 8), Lit("X"), WB>>)
PatZip == Cat(<<WB, Times(Digit1, 5), WB>>)
PatUUID == Cat(<<WB, Times(Hex1, 8), Lit("-"), Times(Hex1, 4), Lit("-"), Times(Hex1, 4), Lit("-"),
                 Times(Hex1, 4), Lit("-"), Times(Hex1, 12), WB>>)

REGEX_PATTERNS ==
    << [label |-> "NAME", pattern |-> PatName, score |-> 1000],
       [label |-> "LOCATION", pattern |-> PatCityState, score |-> 1000],
       [label |-> "CONTACT", pattern |-> PatPhone, score |-> 1000],
       [label |-> "ID", pattern |-> PatSSN, score |-> 1000],
       [label |-> "ID", pattern |-> PatMRN, score |-> 1000],
       [label |-> "ID", pattern |-> PatPassport, score |-> 1000],
       [label |-> "LOCATION", pattern |-> PatZip, score |-> 1000],
       [label |-> "ID", pattern |-> PatUUID, score |-> 1000] >>

LABELS == {"NAME", "LOCATION", "DATE", "CONTACT", "ID", "WEB"}

\* LABEL_PRIORITY.get(label, 0)
LABEL_PRIORITY(label) ==
    CASE label = "NAME" -> 6
      [] label = "CONTACT" -> 5
      [] label = "LOCATION" -> 4
      [] label = "DATE" -> 3
      [] label = "WEB" -> 2
      [] label = "ID" -> 1
      [] OTHER -> 0

\* The first key of LABELS found in the upper-cased raw label.  LABELS is a
\* Python set, so the order of the scan is not fixed; the raw labels drawn
\* below contain at most one key, for which every order gives this result.
standardize_label(label) ==
    LET hits == {key \in LABELS : Contains(Upper(label), key)}
    IN IF hits = {} THEN "OTHER" ELSE CHOOSE key \in hits : TRUE

NON_PHI_KEYS ==
    <<"resourceType", "reference", "status", "code", "coding", "display", "system", "text", "id", "div",
      "status", "valueBoolean", "gender", "multipleBirthBoolean", "use", "clinicalStatus", "verificationStatus">>

(***************************************************************************)
(* merge_entities: a prediction is [word, entity_group, start, end, score] *)
(***************************************************************************)
StripHashes(w) == ReplaceAll(w, "##", "")
NoSpaces(w) == ReplaceAll(w, " ", "")

\* one iteration of the loop over preds[1:], merged is the list so far
MergeStep(merged, e) ==
    LET prev == merged[Len(merged)]
    IN IF e.entity_group = prev.entity_group /\ e.start <= prev.end + 1
       THEN LET word == IF StartsWith(e.word, "##")
                           \/ (IsDigitStr(NoSpaces(prev.word)) /\ IsDigitStr(NoSpaces(e.word)))
                        THEN prev.word \o StripHashes(e.word)
                        ELSE Strip(prev.word \o " " \o StripHashes(e.word))
            IN [merged EXCEPT ![Len(merged)] =
                    [prev EXCEPT !.word = word,
                                 !.end = e.end,
                                 !.score = IF prev.score >= e.score THEN prev.score ELSE e.score]]
       ELSE Append(merged, [e EXCEPT !.word = StripHashes(e.word)])

RECURSIVE MergeLoop(_, _, _)
MergeLoop(merged, preds, i) ==
    IF i > Len(preds) THEN merged ELSE MergeLoop(MergeStep(merged, preds[i]), preds, i + 1)

merge_entities(preds) == IF Len(preds) = 0 THEN <<>> ELSE MergeLoop(<<preds[1]>>, preds, 2)

(***************************************************************************)
(* deidentify_line.  The working state of the function is the record       *)
(* [redacted, redacted_flag, chosen_label, redaction_source,               *)
(* confidence_score]; None is "".                                          *)
(***************************************************************************)
Bracket(label) == "[" \o label \o "]"

\* 1. model-based redaction: one iteration of the loop over preds
ModelStep(st, e) ==
    LET label == standardize_label(e.entity_group)
    IN IF e.score >= CONF_THRESHOLD
       THEN [redacted |-> ReplaceAllIgnoreCase(st.redacted, e.word, Bracket(label)),
             redacted_flag |-> TRUE,
             chosen_label |-> label,
             redaction_source |-> "model",
             confidence_score |-> IF st.confidence_score >= e.score THEN st.confidence_score ELSE e.score]
       ELSE st

RECURSIVE ModelLoop(_, _, _)
ModelLoop(st, preds, i) ==
    IF i > Len(preds) THEN st ELSE ModelLoop(ModelStep(st, preds[i]), preds, i + 1)

\* re.search of an alternation of literal words
SearchAny(s, words) == \E i \in 1..Len(words) : Contains(s, words[i])

\* 2. keypath context hint ("" is None)
KeypathHint(keypath) ==
    LET kp == Lower(keypath)
    IN IF SearchAny(kp, <<"name", "maiden", "given", "family", "prefix", "suffix">>) THEN "NAME"
       ELSE IF SearchAny(kp, <<"address", "city", "state", "postal", "geo">>) THEN "LOCATION"
       ELSE IF SearchAny(kp, <<"birth", "date">>) THEN "DATE"
       ELSE IF SearchAny(kp, <<"phone", "fax", "email", "telecom", "contact">>) THEN "CONTACT"
       ELSE IF SearchAny(kp, <<"id", "identifier", "license", "account", "passport">>) THEN "ID"
       ELSE IF SearchAny(kp, <<"url", "uri", "web", "internet", "ip", "image", "photo">>) THEN "WEB"
       ELSE ""

KeypathStep(st, keypath) ==
    LET hint == KeypathHint(keypath)
    IN IF hint # "" /\ (st.chosen_label = "" \/ LABEL_PRIORITY(hint) > LABEL_PRIORITY(st.chosen_label))
       THEN [st EXCEPT !.redacted = Bracket(hint),
                       !.chosen_label = hint,
                       !.redaction_source = "keypath",
                       !.redacted_flag = TRUE]
       ELSE st

\* 3. regex safeguard: one iteration of the loop over REGEX_PATTERNS.  The
\* inner loop over the matches breaks at the first match that passes the
\* priority test, and the test does not depend on the match.
RegexStep(st, regex_entry, value) ==
    LET m == Search(regex_entry.pattern, value)
    IN IF m.found /\ (st.chosen_label = ""
                      \/ LABEL_PRIORITY(regex_entry.label) >= LABEL_PRIORITY(st.chosen_label))
       THEN [redacted |-> ReplaceAll(st.redacted, m.text, Bracket(regex_entry.label)),
             redacted_flag |-> TRUE,
             chosen_label |-> regex_entry.label,
             redaction_source |-> "regex",
             confidence_score |-> regex_entry.score]
       ELSE st

RECURSIVE RegexLoop(_, _, _)
RegexLoop(st, value, i) ==
    IF i > Len(REGEX_PATTERNS) THEN st
    ELSE RegexLoop(RegexStep(st, REGEX_PATTERNS[i], value), value, i + 1)

RegexGuard(st) == ~st.redacted_flag \/ ~Contains(st.redacted, "[")

\* (the slip of applying the contextual fixes only when no label was chosen)
ContextFixIfUnset(st, value) ==
    IF st.chosen_label # "" THEN st
    ELSE IF FullMatch(Times(Upper1, 2), Strip(value)) \/ FullMatch(Times(Digit1, 5), Strip(value))
    THEN [st EXCEPT !.redacted = "[LOCATION]", !.chosen_label = "LOCATION"]
    ELSE IF FullMatch(NameToken, Strip(value))
    THEN [st EXCEPT !.redacted = "[NAME]", !.chosen_label = "NAME"]
    ELSE st

\* 4. contextual fixes on the trimmed original value
ContextFix(st, value) ==
    LET val_stripped == Strip(value)
    IN IF FullMatch(Times(Upper1, 2), val_stripped)
       THEN [st EXCEPT !.redacted = "[LOCATION]", !.chosen_label = "LOCATION"]
       ELSE IF FullMatch(Times(Digit1, 5), val_stripped)
       THEN [st EXCEPT !.redacted = "[LOCATION]", !.chosen_label = "LOCATION"]
       ELSE IF FullMatch(NameToken, val_stripped)
       THEN [st EXCEPT !.redacted = "[NAME]", !.chosen_label = "NAME"]
       ELSE st

LineStart(value) ==
    [redacted |-> value, redacted_flag |-> FALSE, chosen_label |-> "",
     redaction_source |-> "", confidence_score |-> 0]

\* the audit rows returned with the redacted text
Summary(st, value) ==
    IF st.chosen_label # ""
    THEN << [label |-> st.chosen_label,
             original |-> value,
             confidence |-> IF st.confidence_score # 0 THEN st.confidence_score ELSE 1000,
             source |-> IF st.redaction_source # "" THEN st.redaction_source ELSE "model"] >>
    ELSE <<>>

\* deidentify_line(keypath, value, ner) where ner(value) returned preds
deidentify_line(keypath, value, preds) ==
    IF Strip(value) = ""
    THEN [redacted |-> value, summary |-> <<>>]
    ELSE LET s1 == ModelLoop(LineStart(value), merge_entities(preds), 1)
             s2 == KeypathStep(s1, keypath)
             s3 == IF RegexGuard(s2) THEN RegexLoop(s2, value, 1) ELSE s2
             s4 == ContextFix(s3, value)
         IN [redacted |-> s4.redacted, summary |-> Summary(s4, value)]

(***************************************************************************)
(* JSON documents                                                          *)
(***************************************************************************)
Str(s) == [k |-> "str", v |-> s]
Num(n) == [k |-> "num", v |-> n]
Bool(b) == [k |-> "bool", v |-> b]
Null == [k |-> "null", v |-> 0]
Arr(items) == [k |-> "arr", v |-> items]
KV(key, val) == [key |-> key, val |-> val]
Obj(pairs) == [k |-> "obj", v |-> pairs]

IsStr(d) == d.k = "str"
IsList(d) == d.k = "arr"
IsDict(d) == d.k = "obj"

\* key in d, for a dict d
HasKey(d, key) == \E i \in 1..Len(d.v) : d.v[i].key = key
KeyIndex(d, key) == CHOOSE i \in 1..Len(d.v) : d.v[i].key = key

\* d.get(key, default)
Get(d, key, default) == IF HasKey(d, key) THEN d.v[KeyIndex(d, key)].val ELSE default

\* d[key] = val on a key that d has (the key keeps its place)
Put(d, key, val) == [d EXCEPT !.v[KeyIndex(d, key)].val = val]

\* str(x) for a primitive
PyStr(d) ==
    CASE d.k = "str" -> d.v
      [] d.k = "num" -> IntToStr(d.v)
      [] d.k = "bool" -> IF d.v THEN "True" ELSE "False"
      [] OTHER -> "None"

\* "not x" for the values a resource can be
Falsy(d) ==
    CASE d.k = "null" -> TRUE
      [] d.k = "obj" -> Len(d.v) = 0
      [] d.k = "arr" -> Len(d.v) = 0
      [] d.k = "str" -> d.v = ""
      [] d.k = "num" -> d.v = 0
      [] d.k = "bool" -> ~d.v

(***************************************************************************)
(* walk_json (build_eval_dataset.py).  Each emitted pair carries, besides  *)
(* keypath and value, the position of the leaf it was read from (origin:   *)
(* the indices followed from the root), which the code does not keep and   *)
(* which only the properties read.                                         *)
(***************************************************************************)
RECURSIVE RStripSlash(_)
RStripSlash(s) == IF Len(s) > 0 /\ Ch(s, Len(s)) = "/" THEN RStripSlash(SubSeq(s, 1, Len(s) - 1)) ELSE s

get_fhir_fragment(url) == LET parts == Split(RStripSlash(url), "/") IN parts[Len(parts)]

RECURSIVE walk_json(_, _, _)
RECURSIVE WalkDict(_, _, _, _)
RECURSIVE WalkList(_, _, _, _)

walk_json(obj, context_path, origin) ==
    CASE obj.k = "obj" -> WalkDict(obj, context_path, origin, 1)
      [] obj.k = "arr" -> WalkList(obj, context_path, origin, 1)
      [] OTHER ->
            IF obj.k \in {"str", "num", "bool"} /\ Strip(PyStr(obj)) # ""
            THEN << [keypath |-> Join(context_path, "."), value |-> PyStr(obj), origin |-> origin] >>
            ELSE <<>>

WalkDict(obj, context_path, origin, i) ==
    IF i > Len(obj.v) THEN <<>>
    ELSE LET key == obj.v[i].key
             val == obj.v[i].val
             seg == IF key = "url" /\ IsStr(val) /\ StartsWith(val.v, "http")
                    THEN get_fhir_fragment(val.v)
                    ELSE key
         IN walk_json(val, Append(context_path, seg), Append(origin, i))
            \o WalkDict(obj, context_path, origin, i + 1)

WalkList(obj, context_path, origin, i) ==
    IF i > Len(obj.v) THEN <<>>
    ELSE walk_json(obj.v[i], context_path, Append(origin, i))
         \o WalkList(obj, context_path, origin, i + 1)

(***************************************************************************)
(* set_value_at_path.  The in-place writes of the code are the functional  *)
(* updates of the tree; _set returns the node it was given, as written.    *)
(* A parsed segment is [key, idx], idx = -1 for None.                      *)
(***************************************************************************)
FirstIndexOf(s, c) == IF Contains(s, c) THEN CHOOSE i \in 1..Len(s) : Ch(s, i) = c /\ ~Contains(SubSeq(s, 1, i - 1), c) ELSE 0

\* _INDEXED_SEG_RE = ^([^\[\]]+)(?:\[(\d+)\])?$
parse_segment(seg) ==
    LET lb == FirstIndexOf(seg, "[")
        key == SubSeq(seg, 1, lb - 1)
        digits == SubSeq(seg, lb + 1, Len(seg) - 1)
    IN IF lb > 1 /\ Ch(seg, Len(seg)) = "]" /\ ~Contains(key, "]")
          /\ Len(digits) > 0 /\ \A i \in 1..Len(digits) : Ch(digits, i) \in DigitSet
       THEN [key |-> key, idx |-> StrToNat(digits, 0)]
       ELSE [key |-> seg, idx |-> -1]

AllStrings(d) == \A i \in 1..Len(d.v) : IsStr(d.v[i])
InRange(idx, d) == 0 <= idx /\ idx < Len(d.v)

\* the replacement at the last segment: current is a dict that has key
SetLast(current, key, idx, new_value) ==
    LET next_obj == Get(current, key, Null)
    IN IF IsList(next_obj)
       THEN IF AllStrings(next_obj)
            THEN Put(current, key, Arr([i \in 1..Len(next_obj.v) |-> Str(new_value)]))
            ELSE IF idx # -1 /\ InRange(idx, next_obj)
            THEN Put(current, key, [next_obj EXCEPT !.v[idx + 1] = Str(new_value)])
            ELSE Put(current, key, Str(new_value))
       ELSE Put(current, key, Str(new_value))

RECURSIVE _set(_, _, _)
_set(current, segs, new_value) ==
    IF Len(segs) = 0 THEN current
    ELSE LET key == segs[1].key
             idx == segs[1].idx
         IN IF IsList(current)
            THEN IF idx # -1
                 THEN IF InRange(idx, current)
                      THEN [current EXCEPT !.v[idx + 1] = _set(current.v[idx + 1], segs, new_value)]
                      ELSE current
                 ELSE Arr([i \in 1..Len(current.v) |-> _set(current.v[i], segs, new_value)])
            ELSE IF IsDict(current) /\ HasKey(current, key)
            THEN LET next_obj == Get(current, key, Null)
                 IN IF Len(segs) = 1
                    THEN SetLast(current, key, idx, new_value)
                    ELSE IF idx # -1
                    THEN IF IsList(next_obj) /\ InRange(idx, next_obj)
                         THEN Put(current, key,
                                  [next_obj EXCEPT !.v[idx + 1] = _set(next_obj.v[idx + 1], Tail(segs), new_value)])
                         ELSE current
                    ELSE Put(current, key, _set(next_obj, Tail(segs), new_value))
            ELSE current

set_value_at_path(obj, path, new_value) ==
    IF path = "" THEN obj
    ELSE LET segments == Split(path, ".")
             parsed == [i \in 1..Len(segments) |-> parse_segment(segments[i])]
         IN _set(obj, parsed, new_value)

(***************************************************************************)
(* deidentify_json, step by step.                                          *)
(*                                                                         *)
(* heap is the store of top-level documents: data and redacted_json are    *)
(* references into it, so that a copy and an alias are different things.   *)
(* pc: "start" (called), "loop" (in the loop over flattened), "done"       *)
(* (returned), "raised" (an exception left the function).                  *)
(* error is the exception that left it ("" for none), run counts the calls, *)
(* input0 is the value of the input document when the call was made, hits  *)
(* counts the model calls that returned spans.                             *)
(*                                                                         *)
(* args, ret and returned belong to the specifications that call one       *)
(* function once (LineSpec, SetSpec): the arguments of the call, whether   *)
(* it has returned, and what it returned.                                  *)
(***************************************************************************)
VARIABLES heap, data, redacted_json, flattened, i, all_entities, pc, error, run, input0, hits,
          args, ret, returned

pvars == <<heap, data, redacted_json, flattened, i, all_entities, pc, error, run, input0, hits>>
cvars == <<args, ret, returned>>
vars == <<pvars, cvars>>

SkippedTypes ==
    {"observation", "diagnosticreport", "medicationrequest", "medicationadministration",
     "medicationstatement", "procedure", "condition", "immunization"}

\* resource.get("resourceType", "Unknown")
ResourceType(resource) == PyStr(Get(resource, "resourceType", Str("Unknown")))

\* the first loop of deidentify_json, from entry number n on
RECURSIVE FlattenFrom(_, _)
FlattenFrom(d, n) ==
    LET entries == Get(d, "entry", Arr(<<>>))
    IN IF n > Len(entries.v) THEN <<>>
       ELSE LET entry == entries.v[n]
                resource == Get(entry, "resource", Obj(<<>>))
                rtype == ResourceType(resource)
            IN (IF Falsy(resource) \/ Lower(rtype) \in SkippedTypes
                THEN <<>>
                ELSE walk_json(resource, <<rtype>>,
                               <<KeyIndex(d, "entry"), n, KeyIndex(entry, "resource")>>))
               \o FlattenFrom(d, n + 1)

\* (the slip of writing into the input itself: no copy is made)
NoCopy(h, r) == [heap |-> h, ref |-> r]

\* copy.deepcopy(data): a new document in the store, equal to the old one
DeepCopy(h, r) == [heap |-> Append(h, h[r]), ref |-> Len(h) + 1]

\* k.lower() for k in NON_PHI_KEYS
NonPhiLower == [n \in 1..Len(NON_PHI_KEYS) |-> Lower(NON_PHI_KEYS[n])]

\* the strict deny-list test on the last path component
Denied(orig_keypath) ==
    LET comps == Split(Lower(orig_keypath), ".")
        last == comps[Len(comps)]
    IN \E n \in 1..Len(NON_PHI_KEYS) : last = NonPhiLower[n]

\* orig_keypath.split(".", 1), re-rooted at entry.resource
TargetPath(orig_keypath) ==
    LET dot == FirstIndexOf(orig_keypath, ".")
    IN IF dot > 0
       THEN "entry.resource." \o SubSeq(orig_keypath, dot + 1, Len(orig_keypath))
       ELSE "entry.resource"

\* the rows appended to all_entities for one leaf
AuditRows(orig_keypath, ents) ==
    [n \in 1..Len(ents) |->
        [keypath |-> orig_keypath, original |-> ents[n].original, label |-> ents[n].label,
         confidence |-> ents[n].confidence, source |-> ents[n].source]]

\* what the model service returns for a value in the pipeline runs: nothing,
\* or one confident span over the whole value
NerMenu(value) ==
    { <<>>,
      << [word |-> value, entity_group |-> "NAME", start |-> 0, end |-> Len(value), score |-> 900] >> }

Start ==
    /\ pc = "start"
    /\ flattened' = FlattenFrom(heap[data], 1)
    /\ LET c == DeepCopy(heap, data)
       IN heap' = c.heap /\ redacted_json' = c.ref
    /\ all_entities' = <<>>
    /\ i' = 1
    /\ pc' = "loop"
    /\ UNCHANGED <<data, error, run, input0, hits>>
    /\ UNCHANGED cvars

\* an iteration that ends in one of the two "continue"
SkipLeaf ==
    /\ pc = "loop" /\ i <= Len(flattened)
    /\ LET value_clean == Strip(flattened[i].value)
       IN value_clean = "" \/ Denied(flattened[i].keypath)
    /\ i' = i + 1
    /\ UNCHANGED <<heap, data, redacted_json, flattened, all_entities, pc, error, run, input0, hits>>
    /\ UNCHANGED cvars

\* an iteration in which the model call returns
ProcessLeaf ==
    /\ pc = "loop" /\ i <= Len(flattened)
    /\ LET orig_keypath == flattened[i].keypath
           value_clean == Strip(flattened[i].value)
       IN /\ value_clean # "" /\ ~Denied(orig_keypath)
          /\ \E preds \in NerMenu(value_clean) :
                LET res == deidentify_line(orig_keypath, value_clean, preds)
                IN /\ preds = <<>> \/ hits < MaxModelHits
                   /\ hits' = IF preds = <<>> THEN hits ELSE hits + 1
                   /\ heap' = [heap EXCEPT ![redacted_json] =
                                  set_value_at_path(heap[redacted_json], TargetPath(orig_keypath), res.redacted)]
                   /\ all_entities' = all_entities \o AuditRows(orig_keypath, res.summary)
    /\ i' = i + 1
    /\ UNCHANGED <<data, redacted_json, flattened, pc, error, run, input0>>
    /\ UNCHANGED cvars

\* an iteration in which the model call raises: nothing catches it
NerRaises ==
    /\ pc = "loop" /\ i <= Len(flattened)
    /\ LET value_clean == Strip(flattened[i].value)
       IN value_clean # "" /\ ~Denied(flattened[i].keypath)
    /\ pc' = "raised"
    /\ error' = "model call failed"
    /\ UNCHANGED <<heap, data, redacted_json, flattened, i, all_entities, run, input0, hits>>
    /\ UNCHANGED cvars

Return ==
    /\ pc = "loop" /\ i > Len(flattened)
    /\ pc' = "done"
    /\ UNCHANGED <<heap, data, redacted_json, flattened, i, all_entities, error, run, input0, hits>>
    /\ UNCHANGED cvars

\* the caller (app.py) runs the pipeline again, on the document it got back
Rerun ==
    /\ pc = "done" /\ run < MaxRuns
    /\ heap' = <<heap[redacted_json]>>
    /\ data' = 1
    /\ redacted_json' = 0
    /\ input0' = heap[redacted_json]
    /\ flattened' = <<>>
    /\ all_entities' = <<>>
    /\ i' = 0
    /\ pc' = "start"
    /\ run' = run + 1
    /\ UNCHANGED <<error, hits>>
    /\ UNCHANGED cvars

(***************************************************************************)
(* The input bundles: every sequence of at most MaxEntries entries drawn   *)
(* from a menu of resources.                                               *)
(***************************************************************************)
\* a repeated text field, and a number
Patient1 ==
    Obj(<<KV("resourceType", Str("Patient")),
          KV("name", Arr(<<Obj(<<KV("given", Arr(<<Str("Jon123"), Str("Smith456")>>))>>)>>)),
          KV("multipleBirthInteger", Num(2))>>)

\* a list of objects under "address", with a deny-listed leaf in it
Patient2 ==
    Obj(<<KV("resourceType", Str("Patient")),
          KV("address", Arr(<<Obj(<<KV("use", Str("home")), KV("city", Str("Boston"))>>)>>)),
          KV("identifier", Arr(<<Obj(<<KV("value", Str("02139"))>>)>>))>>)

\* no resourceType; a list of strings under "address", one of them empty; an extension url
Untyped1 ==
    Obj(<<KV("address", Arr(<<Str(""), Str("Main St")>>)),
          KV("url", Str("http://h/race"))>>)

\* a resource of a skipped clinical type
Observation1 ==
    Obj(<<KV("resourceType", Str("Observation")),
          KV("address", Str("Lab 5"))>>)

\* a text field "name" where Patient1 has a list of objects
Organization1 ==
    Obj(<<KV("resourceType", Str("Organization")),
          KV("name", Str("Acme"))>>)

ResourceMenu == <<Patient1, Patient2, Untyped1, Observation1, Organization1>>

Entry(resource) == Obj(<<KV("resource", resource)>>)

Bundle(choice) ==
    Obj(<<KV("type", Str("collection")),
          KV("entry", Arr([n \in 1..Len(choice) |-> Entry(ResourceMenu[choice[n]])]))>>)

Choices == UNION {[1..n -> 1..Len(ResourceMenu)] : n \in 0..MaxEntries}

Init ==
    /\ \E choice \in Choices : heap = <<Bundle(choice)>> /\ input0 = Bundle(choice)
    /\ data = 1
    /\ redacted_json = 0
    /\ flattened = <<>>
    /\ all_entities = <<>>
    /\ i = 0
    /\ pc = "start"
    /\ error = ""
    /\ run = 1
    /\ hits = 0
    /\ args = <<>> /\ ret = <<>> /\ returned = FALSE

Next == Start \/ SkipLeaf \/ ProcessLeaf \/ NerRaises \/ Return \/ Rerun

Spec == Init /\ [][Next]_vars

(***************************************************************************)
(* Reading documents by position                                           *)
(***************************************************************************)
Missing == [k |-> "missing", v |-> 0]

Child(d, n) ==
    IF d.k = "obj" /\ n \in 1..Len(d.v) THEN d.v[n].val
    ELSE IF d.k = "arr" /\ n \in 1..Len(d.v) THEN d.v[n]
    ELSE Missing

RECURSIVE NodeAt(_, _)
NodeAt(d, pos) == IF Len(pos) = 0 THEN d ELSE NodeAt(Child(d, Head(pos)), Tail(pos))

\* same kind at every position, same keys in every object, same length of
\* every array; only the text of string leaves may differ
RECURSIVE SameShape(_, _)
SameShape(a, b) ==
    /\ a.k = b.k
    /\ CASE a.k = "obj" -> /\ Len(a.v) = Len(b.v)
                           /\ \A n \in 1..Len(a.v) :
                                a.v[n].key = b.v[n].key /\ SameShape(a.v[n].val, b.v[n].val)
         [] a.k = "arr" -> /\ Len(a.v) = Len(b.v)
                           /\ \A n \in 1..Len(a.v) : SameShape(a.v[n], b.v[n])
         [] a.k = "str" -> TRUE
         [] OTHER -> a.v = b.v

\* the positions of all nodes of d, each prefixed with at
RECURSIVE Positions(_, _)
Positions(d, at) ==
    {at} \cup (IF d.k \in {"obj", "arr"}
               THEN UNION {Positions(Child(d, n), Append(at, n)) : n \in 1..Len(d.v)}
               ELSE {})

\* the topmost positions at which a and b differ
RECURSIVE DiffPositions(_, _, _)
DiffPositions(a, b, at) ==
    IF a.k = b.k /\ a.k \in {"obj", "arr"} /\ Len(a.v) = Len(b.v)
       /\ (a.k = "obj" => \A n \in 1..Len(a.v) : a.v[n].key = b.v[n].key)
    THEN UNION {DiffPositions(Child(a, n), Child(b, n), Append(at, n)) : n \in 1..Len(a.v)}
    ELSE IF a = b THEN {} ELSE {at}

\* the positions a write along path changes: those at which the document
\* differs after writing a text that occurs nowhere in it
Written(d, path) == DiffPositions(d, set_value_at_path(d, path, "<written>"), <<>>)

\* the leaves of every resource of the bundle, skipped types included, as
\* walk_json reports them
RECURSIVE BundleLeaves(_, _)
BundleLeaves(d, n) ==
    LET entries == Get(d, "entry", Arr(<<>>))
    IN IF n > Len(entries.v) THEN <<>>
       ELSE LET resource == Get(entries.v[n], "resource", Obj(<<>>))
            IN walk_json(resource, <<ResourceType(resource)>>,
                         <<KeyIndex(d, "entry"), n, KeyIndex(entries.v[n], "resource")>>)
               \o BundleLeaves(d, n + 1)

LastSegment(keypath) == LET comps == Split(keypath, ".") IN comps[Len(comps)]

NonPhiSet == {NON_PHI_KEYS[n] : n \in 1..Len(NON_PHI_KEYS)}

\* the input and the output of the current call
In == heap[data]
Out == heap[redacted_json]

EntriesOf(d) == Get(d, "entry", Arr(<<>>)).v
ResourceOf(d, n) == Get(EntriesOf(d)[n], "resource", Obj(<<>>))
IsSkipped(resource) == Lower(ResourceType(resource)) \in SkippedTypes

BracketTokens == {Bracket(l) : l \in LABELS \cup {"OTHER"}}

(***************************************************************************)
(* Properties of deidentify_json                                           *)
(***************************************************************************)

\* C1 (as claimed): structural preservation - the returned document has the
\* same node kind at every position, the same keys in every object and the
\* same length of every array as the input.
C1_StructurePreserved == pc = "done" => SameShape(In, Out)

\* C2: deidentify_json never mutates its input - at every point of the call
\* and after it the input document equals what it was when the call was made.
C2_InputNotMutated == In = input0

\* C2 witness: the call has returned and has written to the copy.
C2_Witness == pc = "done" /\ Out # input0 /\ In = input0

\* C3 (as claimed): deny-list invariant - every leaf whose final path segment
\* is a structural non-PHI key has, in the output, exactly its input value.
C3_DenyListKept ==
    pc = "done" =>
        LET leaves == BundleLeaves(In, 1)
        IN \A n \in 1..Len(leaves) :
              LastSegment(leaves[n].keypath) \in NonPhiSet
                  => NodeAt(Out, leaves[n].origin) = NodeAt(In, leaves[n].origin)

\* C4 (as claimed): a resource of a skipped clinical type is identical in the
\* output to what it was in the input, and no audit row has a keypath of it.
C4_SkippedUntouched ==
    pc = "done" =>
        \A n \in 1..Len(EntriesOf(In)) :
            IsSkipped(ResourceOf(In, n)) =>
                /\ ResourceOf(Out, n) = ResourceOf(In, n)
                /\ \A r \in 1..Len(all_entities) :
                      ~StartsWith(all_entities[r].keypath, ResourceType(ResourceOf(In, n)) \o ".")

\* C5 (as claimed): keypath round-trip - the path built for a pair that
\* walk_json emitted, re-rooted at entry.resource, when written on the whole
\* bundle reaches the leaf the pair was read from and nothing but leaves of
\* the same resource with the same keypath.
C5_RoundTrip ==
    (pc = "loop" /\ i <= Len(flattened)) =>
        LET f == flattened[i]
            w == Written(In, TargetPath(f.keypath))
        IN /\ f.origin \in w
           /\ w \subseteq {flattened[n].origin : n \in {m \in 1..Len(flattened) :
                              /\ flattened[m].keypath = f.keypath
                              /\ flattened[m].origin[2] = f.origin[2]}}

\* C7 (as claimed): idempotence - a second run on the document the first run
\* returned changes no leaf whose value is a bracketed label token.
C7_Idempotent ==
    (pc = "done" /\ run >= 2) =>
        \A pos \in Positions(In, <<>>) :
            (NodeAt(In, pos).k = "str" /\ NodeAt(In, pos).v \in BracketTokens)
                => NodeAt(Out, pos) = NodeAt(In, pos)

\* a leaf that is no string, or is empty after trimming
IsNonTextLeaf(d) == d.k \in {"num", "bool"} \/ (d.k = "str" /\ Strip(d.v) = "")

\* C8 (as claimed): a leaf that is not a string, or is empty after trimming,
\* is skipped - its output value and kind equal the input and no audit row is
\* produced for it.
C8_NonTextSkipped ==
    pc = "done" =>
        /\ \A n \in 1..Len(EntriesOf(In)) :
              ~IsSkipped(ResourceOf(In, n)) =>
                 \A pos \in Positions(ResourceOf(In, n), <<>>) :
                    IsNonTextLeaf(NodeAt(ResourceOf(In, n), pos))
                       => NodeAt(ResourceOf(Out, n), pos) = NodeAt(ResourceOf(In, n), pos)
        /\ \A n \in 1..Len(flattened) :
              IsNonTextLeaf(NodeAt(In, flattened[n].origin))
                 => \A r \in 1..Len(all_entities) :
                       ~(all_entities[r].keypath = flattened[n].keypath
                         /\ all_entities[r].original = Strip(flattened[n].value))

\* C9 (as claimed): a failure of the model call on one leaf does not abort
\* the batch - no exception leaves deidentify_json.
C9_NoAbort == pc # "raised"

(***************************************************************************)
(* LineSpec: one call of deidentify_line, on a keypath, a value and a      *)
(* model output drawn from menus.                                          *)
(***************************************************************************)
\* spans of one model output
MaxPreds == 2

KeypathMenu ==
    {"Patient.name.given", "Patient.address.city", "Patient.birthDate", "Patient.telecom.value",
     "Patient.identifier.value", "Patient.photo.title", "Patient.x"}

ValueMenu ==
    {"Jon123", "Jon123 Smith456", "Boston, MA", "02139", "MA", "555-123-4567", "999-12-3456",
     "hello", "[NAME]", " 02139 ", "  ", "Boston, MA 02139", "999-12-3456 02139"}

\* what the model may report on a value: the whole value, its first three
\* characters, or the rest as a sub-word continuation
PredMenu(value) ==
    LET n == Len(value)
        cut == IF n < 3 THEN n ELSE 3
        head == SubSeq(value, 1, cut)
        rest == "##" \o SubSeq(value, cut + 1, n)
    IN { [word |-> value, entity_group |-> "NAME", start |-> 0, end |-> n, score |-> 900],
         [word |-> head, entity_group |-> "ID", start |-> 0, end |-> cut, score |-> 900],
         [word |-> rest, entity_group |-> "ID", start |-> cut, end |-> n, score |-> 850],
         [word |-> head, entity_group |-> "B-LOCATION", start |-> 0, end |-> cut, score |-> 700],
         [word |-> value, entity_group |-> "PER", start |-> 0, end |-> n, score |-> 950] }

PredSeqs(value) == UNION {[1..n -> PredMenu(value)] : n \in 0..MaxPreds}

ParkedPipeline ==
    /\ heap = <<>> /\ data = 0 /\ redacted_json = 0 /\ flattened = <<>> /\ i = 0
    /\ all_entities = <<>> /\ pc = "idle" /\ error = "" /\ run = 0 /\ input0 = <<>> /\ hits = 0

LineInit ==
    /\ ParkedPipeline
    /\ \E keypath \in KeypathMenu, value \in ValueMenu :
          \E preds \in PredSeqs(value) :
             args = [keypath |-> keypath, value |-> value, preds |-> preds]
    /\ ret = <<>>
    /\ returned = FALSE

LineCall ==
    /\ ~returned
    /\ ret' = deidentify_line(args.keypath, args.value, args.preds)
    /\ returned' = TRUE
    /\ UNCHANGED <<args, pvars>>

LineNext == LineCall

LineSpec == LineInit /\ [][LineNext]_vars

\* the label of the first pattern of REGEX_PATTERNS that matches ("" if none)
RECURSIVE FirstRegexLabel(_, _)
FirstRegexLabel(value, n) ==
    IF n > Len(REGEX_PATTERNS) THEN ""
    ELSE IF Search(REGEX_PATTERNS[n].pattern, value).found THEN REGEX_PATTERNS[n].label
    ELSE FirstRegexLabel(value, n + 1)

\* C6 (as claimed): priority monotonicity - when the keypath heuristic
\* proposes a label and a regex safeguard pattern matches the value, the
\* label finally reported has a priority that is at least the priority of
\* the keypath label and of the regex label.
C6_PriorityMonotone ==
    (returned /\ Strip(args.value) # ""
       /\ KeypathHint(args.keypath) # "" /\ FirstRegexLabel(args.value, 1) # "") =>
        /\ Len(ret.summary) = 1
        /\ LABEL_PRIORITY(ret.summary[1].label) >= LABEL_PRIORITY(KeypathHint(args.keypath))
        /\ LABEL_PRIORITY(ret.summary[1].label) >= LABEL_PRIORITY(FirstRegexLabel(args.value, 1))

(***************************************************************************)
(* SetSpec: one call of set_value_at_path, on a document and a path drawn  *)
(* from menus.                                                             *)
(***************************************************************************)
DocMenu ==
    << Obj(<<KV("a", Arr(<<Str("x"), Str("y")>>))>>),
       Obj(<<KV("a", Arr(<<Num(1), Str("y")>>))>>),
       Obj(<<KV("a", Str("s"))>>),
       Obj(<<KV("a", Arr(<<Obj(<<KV("b", Str("s"))>>), Obj(<<KV("b", Arr(<<Str("t")>>))>>)>>))>>),
       Obj(<<KV("a", Obj(<<KV("b", Str("s")), KV("c", Arr(<<>>))>>))>>),
       Obj(<<KV("a", Arr(<<Arr(<<Obj(<<KV("b", Str("s"))>>)>>)>>))>>),
       Obj(<<KV("name", Arr(<<Obj(<<KV("given", Arr(<<Str("Jon123"), Str("Smith456")>>))>>)>>))>>) >>

PathMenu ==
    {"", "a", "a[0]", "a[1]", "a[5]", "c", "a.b", "a.c", "a.d", "a[0].b", "a[1].b", "a[5].b",
     "a.b[0]", "a.b[5]", "a[0].b[5]", "a[1].b[0]", "a.c[0]", "c.b", "name.given", "name.given[1]",
     "name[0].given[7]", "name[3].given"}

SetInit ==
    /\ ParkedPipeline
    /\ \E d \in 1..Len(DocMenu), path \in PathMenu :
          args = [obj |-> DocMenu[d], path |-> path, new_value |-> "[NAME]"]
    /\ ret = <<>>
    /\ returned = FALSE

SetCall ==
    /\ ~returned
    /\ ret' = set_value_at_path(args.obj, args.path, args.new_value)
    /\ returned' = TRUE
    /\ UNCHANGED <<args, pvars>>

SetNext == SetCall

SetSpec == SetInit /\ [][SetNext]_vars

\* path.split(".") parsed, as set_value_at_path parses it
ParsedPath(path) == LET segments == Split(path, ".") IN [n \in 1..Len(segments) |-> parse_segment(segments[n])]

\* A path that cannot be resolved from the mapping cur, read as the path
\* grammar describes it: a segment names a key and may carry an explicit
\* index into the list under that key; without an index the path continues
\* into every element of a list.  It cannot be resolved when, on every
\* branch, a key is missing from the mapping reached or an explicit index is
\* outside the list it addresses.
RECURSIVE Unresolved(_, _)
Unresolved(cur, segs) ==
    /\ Len(segs) > 0
    /\ IsDict(cur)
    /\ LET key == segs[1].key
           idx == segs[1].idx
           next == Get(cur, key, Missing)
       IN \/ ~HasKey(cur, key)
          \/ idx # -1 /\ IsList(next) /\ ~InRange(idx, next)
          \/ /\ Len(segs) > 1
             /\ IF idx # -1
                THEN IsList(next) /\ InRange(idx, next) /\ Unresolved(next.v[idx + 1], Tail(segs))
                ELSE IF IsList(next)
                THEN Len(next.v) > 0 /\ \A n \in 1..Len(next.v) : Unresolved(next.v[n], Tail(segs))
                ELSE Unresolved(next, Tail(segs))

\* C10 (as claimed): a write whose path cannot be resolved (a missing key, or
\* an explicit index out of bounds at an intermediate or the final segment)
\* leaves the document exactly as it was.
C10_UnresolvedDropped ==
    (returned /\ args.path # "" /\ Unresolved(args.obj, ParsedPath(args.path))) => ret = args.obj

(***************************************************************************)
(* Wildcard fan-out                                                        *)
(***************************************************************************)
\* the positions of the nodes that the final segment of a path names, from
\* the node cur at position at
RECURSIVE FinalTargets(_, _, _)
FinalTargets(cur, segs, at) ==
    IF Len(segs) = 0 THEN {}
    ELSE LET key == segs[1].key
             idx == segs[1].idx
         IN IF IsList(cur)
            THEN IF idx # -1
                 THEN IF InRange(idx, cur)
                      THEN FinalTargets(cur.v[idx + 1], segs, Append(at, idx + 1))
                      ELSE {}
                 ELSE UNION {FinalTargets(cur.v[n], segs, Append(at, n)) : n \in 1..Len(cur.v)}
            ELSE IF IsDict(cur) /\ HasKey(cur, key)
            THEN LET ki == KeyIndex(cur, key)
                     next == Get(cur, key, Missing)
                 IN IF Len(segs) = 1 THEN {Append(at, ki)}
                    ELSE IF idx # -1
                    THEN IF IsList(next) /\ InRange(idx, next)
                         THEN FinalTargets(next.v[idx + 1], Tail(segs), at \o <<ki, idx + 1>>)
                         ELSE {}
                    ELSE FinalTargets(next, Tail(segs), Append(at, ki))
            ELSE {}

\* every list of strings that the final segment of path names in d is, after
\* the write of new_value, a list of the same length whose elements are all
\* new_value
FansOut(d, path, new_value) ==
    LET after == set_value_at_path(d, path, new_value)
    IN \A pos \in FinalTargets(d, ParsedPath(path), <<>>) :
          LET old == NodeAt(d, pos)
              new == NodeAt(after, pos)
          IN (IsList(old) /\ AllStrings(old)) =>
                /\ IsList(new) /\ Len(new.v) = Len(old.v)
                /\ \A n \in 1..Len(new.v) : new.v[n] = Str(new_value)

\* the value under name[0].given of a resource (Missing if there is none)
GivenOf(resource) ==
    LET name == Get(resource, "name", Missing)
    IN IF IsList(name) /\ Len(name.v) > 0 /\ IsDict(name.v[1])
       THEN Get(name.v[1], "given", Missing)
       ELSE Missing

\* C11 (as claimed): wildcard fan-out - a write whose final segment names a
\* list of strings overwrites every element and keeps the length of the list;
\* and a resource with name.given = ["Jon123", "Smith456"] has both elements
\* equal to "[NAME]" in the document deidentify_json returns.
C11_FanOut ==
    /\ (pc = "loop" /\ i <= Len(flattened)) =>
          \A l \in LABELS : FansOut(Out, TargetPath(flattened[i].keypath), Bracket(l))
    /\ pc = "done" =>
          \A n \in 1..Len(EntriesOf(In)) :
             GivenOf(ResourceOf(In, n)) = Arr(<<Str("Jon123"), Str("Smith456")>>)
                => GivenOf(ResourceOf(Out, n)) = Arr(<<Str("[NAME]"), Str("[NAME]")>>)

(***************************************************************************)
(* Properties of deidentify_line (LineSpec)                                *)
(***************************************************************************)
AllIn(s, S) == \A n \in 1..Len(s) : Ch(s, n) \in S

\* exactly two uppercase letters
IsTwoUpper(s) == Len(s) = 2 /\ AllIn(s, UpperSet)

\* exactly five digits
IsFiveDigits(s) == Len(s) = 5 /\ AllIn(s, DigitSet)

\* a capitalized word followed by two or more digits
IsCapWordDigits(s) ==
    \E a \in 2..Len(s) :
        /\ Ch(s, 1) \in UpperSet
        /\ AllIn(SubSeq(s, 2, a), LowerSet)
        /\ Len(s) - a >= 2
        /\ AllIn(SubSeq(s, a + 1, Len(s)), DigitSet)

\* the call returned text with exactly one audit row, of label
ReturnedAs(text, label) ==
    /\ ret.redacted = text
    /\ Len(ret.summary) = 1
    /\ ret.summary[1].label = label

\* C12: post-fix overrides apply regardless of prior state - a value whose
\* trimmed form is exactly two uppercase letters or exactly five digits comes
\* back as "[LOCATION]" with audit label LOCATION, and one whose trimmed form
\* is a capitalized word followed by two or more digits as "[NAME]" with
\* audit label NAME, for every keypath and every model output.
C12_PostFix ==
    returned =>
        LET t == Strip(args.value)
        IN /\ (IsTwoUpper(t) \/ IsFiveDigits(t)) => ReturnedAs("[LOCATION]", "LOCATION")
           /\ IsCapWordDigits(t) => ReturnedAs("[NAME]", "NAME")

\* C12 witness: five digits under a name keypath, with a confident model
\* span of another label, came back as [LOCATION].
C12_Witness ==
    /\ returned
    /\ args.keypath = "Patient.name.given" /\ args.value = " 02139 "
    /\ Len(args.preds) > 0 /\ args.preds[1].entity_group = "ID" /\ args.preds[1].score >= CONF_THRESHOLD
    /\ ReturnedAs("[LOCATION]", "LOCATION")

\* the spans that the model step applies: those of merge_entities(preds) with
\* a score of at least CONF_THRESHOLD
AppliedSpans(preds) ==
    LET merged == merge_entities(preds)
    IN {n \in 1..Len(merged) : merged[n].score >= CONF_THRESHOLD}

\* the labels of the applied spans
AppliedLabels(preds) ==
    LET merged == merge_entities(preds)
    IN {standardize_label(merged[n].entity_group) : n \in AppliedSpans(preds)}

\* the working state after the model step
AfterModel(value, preds) == ModelLoop(LineStart(value), merge_entities(preds), 1)

\* C13 (as claimed): after the model step chosen_label is the label of
\* highest priority among the applied spans, in whatever order they arrive;
\* and the keypath heuristic overrides only when no model label was chosen or
\* its label has strictly higher priority than every applied model label.
C13_HighestModelLabel ==
    (returned /\ Strip(args.value) # "") =>
        LET s1 == AfterModel(args.value, args.preds)
            labels == AppliedLabels(args.preds)
            hint == KeypathHint(args.keypath)
        IN /\ labels = {} => s1.chosen_label = ""
           /\ labels # {} =>
                 /\ s1.chosen_label \in labels
                 /\ \A l \in labels : LABEL_PRIORITY(s1.chosen_label) >= LABEL_PRIORITY(l)
           /\ KeypathStep(s1, args.keypath).redaction_source = "keypath" =>
                 \A l \in labels : LABEL_PRIORITY(hint) > LABEL_PRIORITY(l)

\* the working state when the regex step is reached
BeforeRegex(keypath, value, preds) == KeypathStep(AfterModel(value, preds), keypath)

\* the working state after the first n patterns of REGEX_PATTERNS
RECURSIVE RegexPrefix(_, _, _)
RegexPrefix(st, value, n) ==
    IF n = 0 THEN st
    ELSE RegexStep(RegexPrefix(st, value, n - 1), REGEX_PATTERNS[n], value)

\* pattern n contributes: it matches and passes the priority test, so its
\* match is substituted
Contributes(st, value, n) ==
    LET before == RegexPrefix(st, value, n - 1)
    IN /\ Search(REGEX_PATTERNS[n].pattern, value).found
       /\ \/ before.chosen_label = ""
          \/ LABEL_PRIORITY(REGEX_PATTERNS[n].label) >= LABEL_PRIORITY(before.chosen_label)

\* C14 (as claimed): the regex safeguard stops at the first contributing
\* pattern - at most one pattern contributes, and once one has, no later
\* pattern changes the working string, the label, the confidence or the source.
C14_FirstPatternOnly ==
    (returned /\ Strip(args.value) # "") =>
        LET s2 == BeforeRegex(args.keypath, args.value, args.preds)
            N == Len(REGEX_PATTERNS)
        IN RegexGuard(s2) =>
              /\ Cardinality({n \in 1..N : Contributes(s2, args.value, n)}) <= 1
              /\ \A n \in 1..N : Contributes(s2, args.value, n) =>
                    RegexPrefix(s2, args.value, N) = RegexPrefix(s2, args.value, n)

\* C15 (as claimed): audit rows agree with the redaction - deidentify_line
\* returns an audit row exactly when the returned text differs from the
\* value, and the returned text contains the bracketed label of every row it
\* returns.  (Stated for values that hold no bracket yet, where a returned
\* text equal to the value is the original text intact.)
C15_AuditAgrees ==
    (returned /\ ~Contains(args.value, "[")) =>
        /\ Len(ret.summary) > 0 <=> ret.redacted # args.value
        /\ \A n \in 1..Len(ret.summary) : Contains(ret.redacted, Bracket(ret.summary[n].label))

====
